---- MODULE Spec2Model ----
(***************************************************************************)
(* Model of lib_cmd (src/lib_cmd/cmd.h, src/lib_cmd/cmd.cpp): the token    *)
(* stream cmd_tokens_t, the tokenizer, the string utilities and the        *)
(* dispatcher cmd_parser_t::execute / execute_imp.                         *)
(*                                                                         *)
(* A C string is a sequence of one-character strings; the terminating NUL  *)
(* is the position one past the end of the sequence.                       *)
(***************************************************************************)
EXTENDS Integers, Sequences, FiniteSets, TLC

VARIABLES
    pc,        \* position of the (single) thread of control
    history_,  \* cmd_parser_t::history_
    alias_,    \* cmd_parser_t::alias_ (alias name -> node)
    ndebug,    \* TRUE when the build defines NDEBUG (assert compiled out)
    expr,      \* execute: the expression
    ix,        \* execute: scan index into expr
    cmd,       \* execute: the statement being executed
    active,    \* execute: loop flag
    result,    \* execute: returned value (meaningful once it has returned)
    stmt,      \* execute_imp: its expr parameter, also tokenize's input
    prev_cmd,  \* execute_imp: the copy of last_cmd() taken on entry
    depth,     \* execute_imp: recursion depth (0 = called from execute)
    src,       \* tokenize: offset of the scan pointer src
    start,     \* tokenize: offset of the pointer start
    tok,       \* the cmd_tokens_t being filled and consumed
    disp,      \* observed: the execute_imp calls made by execute, with results
    log,       \* observed: the handler invocations
    out,       \* observed: the lines written to the output sink
    nsub,      \* number of execute calls made so far
    call       \* observed: the last direct call of a library function

vars == <<pc, history_, alias_, ndebug, expr, ix, cmd, active, result, stmt,
          prev_cmd, depth, src, start, tok, disp, log, out, nsub, call>>

(***************************************************************************)
(* Characters and strings                                                  *)
(***************************************************************************)
\* no library function has been called directly
NoCall == [fn |-> "none"]

SP == " "
TAB == "\t"
EmptyStr == <<>>

Digits == <<"0", "1", "2", "3", "4", "5", "6", "7", "8", "9">>

\* std::to_string(uint64_t): the decimal numeral, most significant digit first
RECURSIVE to_string(_)
to_string(val) ==
    IF val < 10 THEN <<Digits[val + 1]>>
    ELSE Append(to_string(val \div 10), Digits[(val % 10) + 1])

\* std::string::find(ch, from): offset of the first ch at or after offset
\* from, or -1 (npos)
RECURSIVE str_find(_, _, _)
str_find(s, ch, from) ==
    IF from >= Len(s) THEN -1
    ELSE IF s[from + 1] = ch THEN from
    ELSE str_find(s, ch, from + 1)

\* the character *p of the C string s at offset p ("" stands for NUL)
CharAt(s, p) == IF p < Len(s) THEN s[p + 1] ELSE ""

\* std::string::substr(pos, n) with 0-based pos
substr(s, pos, n) == SubSeq(s, pos + 1, pos + n)

(***************************************************************************)
(* cmd_util_t                                                              *)
(***************************************************************************)
INT_MAX == 2147483647

RECURSIVE str_match_at(_, _, _)
str_match_at(str, sub, i) ==
    IF i >= Len(str)                       \* str[i] == '\0'
    THEN IF i >= Len(sub) THEN INT_MAX     \* perfect match
         ELSE -1                           \* substring too long
    ELSE IF i >= Len(sub) THEN i           \* end of sub string
    ELSE IF str[i + 1] # sub[i + 1] THEN -1
    ELSE str_match_at(str, sub, i + 1)

\* str_match with the perfect match scored by its length, like a prefix
str_match_exact_len(str, sub) ==
    LET val == str_match_at(str, sub, 0)
    IN IF val = INT_MAX THEN Len(str) ELSE val

str_match(str, sub) == str_match_at(str, sub, 0)

(***************************************************************************)
(* uint64_t arithmetic.  A uint64_t is four 16-bit limbs, least            *)
(* significant first, so that every intermediate value is a small integer. *)
(***************************************************************************)
LIMB == 65536

u64_zero == <<0, 0, 0, 0>>

\* a * m modulo 2^64, for a multiplier m below LIMB
u64_mul(a, m) ==
    LET p1 == a[1] * m
        p2 == a[2] * m + p1 \div LIMB
        p3 == a[3] * m + p2 \div LIMB
        p4 == a[4] * m + p3 \div LIMB
    IN <<p1 % LIMB, p2 % LIMB, p3 % LIMB, p4 % LIMB>>

\* a + d modulo 2^64, for an addend d below LIMB
u64_add(a, d) ==
    LET s1 == a[1] + d
        s2 == a[2] + s1 \div LIMB
        s3 == a[3] + s2 \div LIMB
        s4 == a[4] + s3 \div LIMB
    IN <<s1 % LIMB, s2 % LIMB, s3 % LIMB, s4 % LIMB>>

\* 0 - a modulo 2^64
u64_neg(a) ==
    u64_add(<<LIMB - 1 - a[1], LIMB - 1 - a[2], LIMB - 1 - a[3],
              LIMB - 1 - a[4]>>, 1)

(***************************************************************************)
(* cmd_util_t::strtoll and cmd_token_t::get<int64_t>                       *)
(***************************************************************************)
HexLower == <<"a", "b", "c", "d", "e", "f">>
HexUpper == <<"A", "B", "C", "D", "E", "F">>

\* lo <= ch && ch <= hi, for the characters lo..hi listed in range
InRange(ch, range) == \E i \in 1..Len(range) : range[i] = ch

\* ch - lo
Offset(ch, range) == (CHOOSE i \in 1..Len(range) : range[i] = ch) - 1

\* the body of the for loop of strtoll on the character ch: the new accum,
\* and whether the loop returns early (stop) and with what (ret)
strtoll_step(accum, base, ch) ==
    LET acc == u64_mul(accum, base)
    IN IF InRange(ch, Digits)
       THEN [stop |-> FALSE, ret |-> TRUE,
             accum |-> u64_add(acc, Offset(ch, Digits))]
       ELSE IF base = 16
       THEN IF InRange(ch, HexLower)
            THEN [stop |-> FALSE, ret |-> TRUE,
                  accum |-> u64_add(acc, Offset(ch, HexLower) + 10)]
            ELSE IF InRange(ch, HexUpper)
            THEN [stop |-> FALSE, ret |-> TRUE,
                  accum |-> u64_add(acc, Offset(ch, HexUpper) + 10)]
            ELSE [stop |-> FALSE, ret |-> TRUE, accum |-> acc]
       ELSE [stop |-> TRUE, ret |-> ch = SP, accum |-> acc]

\* the for loop of strtoll from offset p: [ret, out]; out0 is what the
\* caller's out holds, left as it is when the loop returns early
RECURSIVE strtoll_loop(_, _, _, _, _)
strtoll_loop(in, p, base, accum, out0) ==
    IF p >= Len(in) THEN [ret |-> TRUE, out |-> accum]
    ELSE LET s == strtoll_step(accum, base, in[p + 1])
         IN IF s.stop THEN [ret |-> s.ret, out |-> out0]
            ELSE strtoll_loop(in, p + 1, base, s.accum, out0)

\* memcmp(in, "0x", 2) == 0 at offset p (the first byte that differs
\* decides, the terminating NUL included)
has_0x(in, p) == CharAt(in, p) = "0" /\ CharAt(in, p + 1) = "x"

\* strtoll(in, out, neg): [ret, out, neg]
strtoll(in, out0) ==
    LET neg == CharAt(in, 0) = "-"
        p1 == IF neg THEN 1 ELSE 0
        hex == has_0x(in, p1)
        r == strtoll_loop(in, IF hex THEN p1 + 2 ELSE p1,
                          IF hex THEN 16 ELSE 10, u64_zero, out0)
    IN [ret |-> r.ret, out |-> r.out, neg |-> neg]

\* cmd_token_t::get with the sign dropped
token_get_abs(token_, out0) ==
    LET r == strtoll(token_, u64_zero)
    IN IF ~r.ret THEN [ret |-> FALSE, out |-> out0]
       ELSE [ret |-> TRUE, out |-> r.out]

\* cmd_token_t::get<int64_t>(out): [ret, out], out as the 64-bit pattern
token_get(token_, out0) ==
    LET r == strtoll(token_, u64_zero)
    IN IF ~r.ret THEN [ret |-> FALSE, out |-> out0]
       ELSE [ret |-> TRUE, out |-> IF r.neg THEN u64_neg(r.out) ELSE r.out]

(***************************************************************************)
(* The identifier table handed to every cmd_tokens_t                       *)
(***************************************************************************)
idents_ == [n \in {<<"k">>} |-> 42]

(***************************************************************************)
(* cmd_tokens_t                                                            *)
(***************************************************************************)
\* a freshly constructed cmd_tokens_t
NewTokens ==
    [raw_ |-> <<>>, stage_pair_ |-> EmptyStr, tokens_ |-> <<>>,
     pairs_ |-> [k \in {} |-> EmptyStr], flags_ |-> {}]

\* identifier substitution at the head of push
substitute(input) ==
    IF input[1] = "$" /\ Tail(input) \in DOMAIN idents_
    THEN to_string(idents_[Tail(input)])
    ELSE input

\* push with the commit of a staged flag lost when the next flag arrives
push_drop_staged(t, input0) ==
    IF input0 = EmptyStr
    THEN IF t.stage_pair_ # EmptyStr
         THEN [t EXCEPT !.flags_ = @ \cup {t.stage_pair_},
                        !.stage_pair_ = EmptyStr]
         ELSE t
    ELSE LET input == substitute(input0)
             t1 == [t EXCEPT !.raw_ = Append(@, input)]
         IN IF input[1] = "-"
            THEN [t1 EXCEPT !.stage_pair_ = input]
            ELSE IF t.stage_pair_ # EmptyStr
                 THEN [t1 EXCEPT
                         !.pairs_ = [k \in DOMAIN @ \cup {t.stage_pair_} |->
                                       IF k = t.stage_pair_ THEN input ELSE @[k]],
                         !.stage_pair_ = EmptyStr]
                 ELSE [t1 EXCEPT !.tokens_ = Append(@, input)]

push(t, input0) ==
    IF input0 = EmptyStr
    THEN \* flush when input is empty
         IF t.stage_pair_ # EmptyStr
         THEN [t EXCEPT !.flags_ = @ \cup {t.stage_pair_},
                        !.stage_pair_ = EmptyStr]
         ELSE t
    ELSE LET input == substitute(input0)
             t1 == [t EXCEPT !.raw_ = Append(@, input)]
         IN IF input[1] = "-"
            THEN [t1 EXCEPT
                    !.flags_ = IF t.stage_pair_ # EmptyStr
                               THEN @ \cup {t.stage_pair_} ELSE @,
                    !.stage_pair_ = input]
            ELSE IF t.stage_pair_ # EmptyStr
                 THEN [t1 EXCEPT
                         !.pairs_ = [k \in DOMAIN @ \cup {t.stage_pair_} |->
                                       IF k = t.stage_pair_ THEN input ELSE @[k]],
                         !.stage_pair_ = EmptyStr]
                 ELSE [t1 EXCEPT !.tokens_ = Append(@, input)]

token_size(t) == Len(t.tokens_)
token_empty(t) == t.tokens_ = <<>>
token_front(t) == Head(t.tokens_)

\* get(std::string&) and get(cmd_token_t&): [ret, out, t], t the stream left
get_string(t) ==
    IF t.tokens_ = <<>> THEN [ret |-> FALSE, out |-> EmptyStr, t |-> t]
    ELSE [ret |-> TRUE, out |-> Head(t.tokens_),
          t |-> [t EXCEPT !.tokens_ = Tail(@)]]

\* get(uint64_t&): [ret, out, t]
get_uint64(t) ==
    IF t.tokens_ = <<>> THEN [ret |-> FALSE, out |-> u64_zero, t |-> t]
    ELSE LET r == token_get(Head(t.tokens_), u64_zero)
         IN IF ~r.ret THEN [ret |-> FALSE, out |-> u64_zero, t |-> t]
            ELSE [ret |-> TRUE, out |-> r.out,
                  t |-> [t EXCEPT !.tokens_ = Tail(@)]]

\* token_pop with tokens_.pop_front() lost
token_pop_keep_tokens(t) ==
    IF /\ t.tokens_ # <<>>
       /\ t.raw_ # <<>>
       /\ Head(t.raw_) = Head(t.tokens_)
    THEN [t EXCEPT !.raw_ = Tail(@)]
    ELSE t

\* token_pop succeeds when the fronts of raw_ and tokens_ agree
token_pop_ok(t) ==
    /\ t.tokens_ # <<>>
    /\ t.raw_ # <<>>
    /\ Head(t.raw_) = Head(t.tokens_)

token_pop(t) ==
    IF token_pop_ok(t)
    THEN [t EXCEPT !.raw_ = Tail(@), !.tokens_ = Tail(@)]
    ELSE t

(***************************************************************************)
(* tokenize                                                                *)
(***************************************************************************)
\* for (; *src == ' '; ++src);
RECURSIVE skip_spaces(_, _)
skip_spaces(s, p) ==
    IF CharAt(s, p) = SP THEN skip_spaces(s, p + 1) ELSE p

\* one iteration of the while loop of tokenize, from offsets <<src, start>>
\* with token stream t: the new <<src, start, t>>
tokenize_step(s, p, st, t) ==
    IF CharAt(s, p) = SP \/ CharAt(s, p) = TAB
    THEN LET q == skip_spaces(s, p)
         IN [src |-> q, start |-> q, tok |-> push(t, substr(s, st, p - st))]
    ELSE [src |-> p + 1, start |-> st, tok |-> t]

\* the code after the loop: the trailing word, then the flush
tokenize_end(s, p, st, t) ==
    LET t1 == IF p # st THEN push(t, substr(s, st, p - st)) ELSE t
    IN push(t1, EmptyStr)

(***************************************************************************)
(* The command tree registered at set-up (add_command / add_sub_command)   *)
(* and the aliases its commands registered (cmd_t::alias_add).             *)
(*   root: status, stop, start, show { ip, if }, nop, no                   *)
(* show and nop keep the default cmd_t::on_execute; the others override it.*)
(***************************************************************************)
nullptr == 0

Nodes == 1..8

name_ ==
    << <<"s","t","a","t","u","s">>, <<"s","t","o","p">>,
       <<"s","t","a","r","t">>, <<"s","h","o","w">>,
       <<"i","p">>, <<"i","f">>, <<"n","o","p">>, <<"n","o">> >>

parent_ == <<0, 0, 0, 0, 4, 4, 0, 0>>

\* cmd_parser_t::sub_, the root command list, in registration order
RootSub == <<1, 2, 3, 4, 7, 8>>

\* cmd_t::sub_ of each node
sub_ == [n \in Nodes |-> IF n = 4 THEN <<5, 6>> ELSE <<>>]

\* the nodes whose type overrides on_execute
Overrides == {1, 2, 3, 5, 6, 8}

AliasSetup ==
    [a \in {<<"s","t">>, <<"s","t","o","p">>, <<"i","p">>} |->
        IF a = <<"s","t">> THEN 4
        ELSE IF a = <<"s","t","o","p">> THEN 3
        ELSE 5]

alias_find(table, alias) ==
    IF alias \in DOMAIN table THEN table[alias] ELSE nullptr

\* alias_[alias] = cmd
alias_add(table, c, alias) ==
    [a \in DOMAIN table \cup {alias} |-> IF a = alias THEN c ELSE table[a]]

\* alias_.erase(itt) for the entry of alias
alias_erase(table, alias) == [a \in DOMAIN table \ {alias} |-> table[a]]

\* alias_remove(const std::string&): [ret, table]
alias_remove_name(table, alias) ==
    IF alias \in DOMAIN table
    THEN [ret |-> TRUE, table |-> alias_erase(table, alias)]
    ELSE [ret |-> FALSE, table |-> table]

\* the loop of alias_remove(const cmd_t*) over the entries still to visit
\* (the order of the visit does not show in the result)
RECURSIVE alias_remove_scan(_, _, _)
alias_remove_scan(table, todo, c) ==
    IF todo = {} THEN table
    ELSE LET a == CHOOSE x \in todo : TRUE
         IN alias_remove_scan(IF table[a] = c THEN alias_erase(table, a)
                              ELSE table,
                              todo \ {a}, c)

\* alias_remove(const cmd_t*) leaving the loop at its first erase
alias_remove_cmd_first(table, c) ==
    IF \E a \in DOMAIN table : table[a] = c
    THEN alias_erase(table, CHOOSE a \in DOMAIN table : table[a] = c)
    ELSE table

\* alias_remove(const cmd_t*): the table left
alias_remove_cmd(table, c) == alias_remove_scan(table, DOMAIN table, c)

RECURSIVE find_matches_from(_, _, _, _, _)
find_matches_from(list, sub, k, score, vec) ==
    IF k > Len(list) THEN vec
    ELSE LET val == str_match(name_[list[k]], sub)
         IN IF val > score
            THEN find_matches_from(list, sub, k + 1, val, <<list[k]>>)
            ELSE IF val = score
            THEN find_matches_from(list, sub, k + 1, score, Append(vec, list[k]))
            ELSE find_matches_from(list, sub, k + 1, score, vec)

\* find_matches with the tie branch lost: only the first of the candidates
\* at the top score is kept
RECURSIVE find_matches_first_from(_, _, _, _, _)
find_matches_first_from(list, sub, k, score, vec) ==
    IF k > Len(list) THEN vec
    ELSE LET val == str_match(name_[list[k]], sub)
         IN IF val > score
            THEN find_matches_first_from(list, sub, k + 1, val, <<list[k]>>)
            ELSE find_matches_first_from(list, sub, k + 1, score, vec)

find_matches_first(list, sub) == find_matches_first_from(list, sub, 1, 0, <<>>)

\* find_matches with "score = val" lost: every match replaces the vector
RECURSIVE find_matches_last_from(_, _, _, _)
find_matches_last_from(list, sub, k, vec) ==
    IF k > Len(list) THEN vec
    ELSE LET val == str_match(name_[list[k]], sub)
         IN IF val > 0
            THEN find_matches_last_from(list, sub, k + 1, <<list[k]>>)
            ELSE find_matches_last_from(list, sub, k + 1, vec)

find_matches_last(list, sub) == find_matches_last_from(list, sub, 1, <<>>)

\* the vector vec filled by find_matches, called with vec empty
find_matches(list, sub) == find_matches_from(list, sub, 1, 0, <<>>)

(***************************************************************************)
(* cmd_util_t::levenshtein.  column[] is alloca'd and column[0] is written *)
(* only inside the x loop: junk is the indeterminate value it holds before.*)
(* col[y + 1] models column[y].                                            *)
(***************************************************************************)
MIN3(a, b, c) ==
    IF a < b THEN (IF a < c THEN a ELSE c) ELSE (IF b < c THEN b ELSE c)

RECURSIVE lev_inner(_, _, _, _, _, _)
lev_inner(s1, s2, x, y, col, lastdiag) ==
    IF y > Len(s1) THEN col
    ELSE LET olddiag == col[y + 1]
             new == MIN3(col[y + 1] + 1, col[y] + 1,
                         lastdiag + (IF s1[y] = s2[x] THEN 0 ELSE 1))
         IN lev_inner(s1, s2, x, y + 1, [col EXCEPT ![y + 1] = new], olddiag)

RECURSIVE lev_outer(_, _, _, _)
lev_outer(s1, s2, x, col) ==
    IF x > Len(s2) THEN col
    ELSE lev_outer(s1, s2, x + 1,
                   lev_inner(s1, s2, x, 1, [col EXCEPT ![1] = x], x - 1))

levenshtein(s1, s2, junk) ==
    LET column == [y \in 1..(Len(s1) + 1) |-> IF y = 1 THEN junk ELSE y - 1]
    IN lev_outer(s1, s2, 1, column)[Len(s1) + 1]

\* values an uninitialised uint32_t may hold
Junk32 == {0, 7}

(***************************************************************************)
(* Output lines: <<format, argument>>                                      *)
(***************************************************************************)
Line(fmt, arg) == <<fmt, arg>>

\* print_cmd_list / the "    %s" loops: one line per node of list
RECURSIVE name_lines(_, _)
name_lines(fmt, list) ==
    IF list = <<>> THEN <<>>
    ELSE <<Line(fmt, name_[Head(list)])>> \o name_lines(fmt, Tail(list))

\* cmd_locale_t::command_failed
command_failed(c) == <<Line("command failed", c)>>

(***************************************************************************)
(* cmd_t                                                                   *)
(***************************************************************************)
FUZZYNESS == 3

RECURSIVE get_command_path(_)
get_command_path(n) ==
    IF parent_[n] # nullptr
    THEN get_command_path(parent_[n]) \o <<SP>> \o name_[n]
    ELSE name_[n]

\* the children of n within edit distance FUZZYNESS of word, in order
RECURSIVE fuzzy_list(_, _, _)
fuzzy_list(list, word, junk) ==
    IF list = <<>> THEN <<>>
    ELSE (IF levenshtein(name_[Head(list)], word, junk) < FUZZYNESS
          THEN <<Head(list)>> ELSE <<>>)
         \o fuzzy_list(Tail(list), word, junk)

\* the default on_execute with the "no subcommand" diagnostic taken for a
\* dispatch failure
on_execute_strict(n, t, junk) ==
    IF sub_[n] = <<>>
    THEN [ret |-> FALSE, out |-> <<>>]
    ELSE IF ~token_empty(t)
    THEN LET list == fuzzy_list(sub_[n], token_front(t), junk)
         IN [ret |-> FALSE,
             out |-> <<Line("no subcommand '%s'", token_front(t))>>
                     \o (IF list # <<>>
                         THEN <<Line("did you meen:", EmptyStr)>>
                              \o name_lines("    %s", list)
                         ELSE <<>>)]
    ELSE [ret |-> TRUE, out |-> name_lines("%s", sub_[n])]

\* the default cmd_t::on_execute: [ret, out]
on_execute(n, t, junk) ==
    IF sub_[n] = <<>>
    THEN [ret |-> FALSE, out |-> <<>>]
    ELSE IF ~token_empty(t)
    THEN LET list == fuzzy_list(sub_[n], token_front(t), junk)
         IN [ret |-> TRUE,
             out |-> <<Line("no subcommand '%s'", token_front(t))>>
                     \o (IF list # <<>>
                         THEN <<Line("did you meen:", EmptyStr)>>
                              \o name_lines("    %s", list)
                         ELSE <<>>)]
    ELSE [ret |-> TRUE, out |-> name_lines("%s", sub_[n])]

\* cmd_t::on_usage (usage_ and desc_ are null): [ret, out]
on_usage(n) ==
    [ret |-> TRUE,
     out |-> <<Line("usage: %s %s", get_command_path(n))>>
             \o (IF sub_[n] # <<>>
                 THEN <<Line("subcomands:", EmptyStr)>>
                      \o name_lines("%s", sub_[n])
                 ELSE <<>>)]

(***************************************************************************)
(* cmd_parser_t::execute_imp, lines 187-216: alias lookup, then the tree   *)
(* walk.  The result records the target (cmd), the token stream left, the  *)
(* lines printed, and what happened on the way:                            *)
(*   aborted  the assert of token_pop fired (a build without NDEBUG)       *)
(*   popfail  a token_pop returned false                                   *)
(*   alias    the target came from the alias table                         *)
(*   path     the nodes the walk descended into, in order                  *)
(*   fronts   the front token matched at each level of the walk            *)
(*   tied     the candidates of an ambiguous match                         *)
(***************************************************************************)
NoTarget(t) ==
    [cmd |-> nullptr, tok |-> t, out |-> <<>>, aborted |-> FALSE,
     popfail |-> FALSE, alias |-> FALSE, path |-> <<>>, fronts |-> <<>>,
     tied |-> <<>>]

RECURSIVE tree_walk(_, _, _)
tree_walk(list, r0, nd) ==
    IF token_empty(r0.tok) THEN r0
    ELSE LET cmd_vec == find_matches(list, token_front(r0.tok))
             r == [r0 EXCEPT !.fronts = Append(@, token_front(r0.tok))]
         IN IF Len(cmd_vec) = 0
            THEN r      \* no sub commands to match
            ELSE IF Len(cmd_vec) = 1
            THEN LET c == cmd_vec[1]
                     r1 == [r EXCEPT !.cmd = c, !.path = Append(@, c)]
                 IN IF token_pop_ok(r.tok)
                    THEN tree_walk(sub_[c], [r1 EXCEPT !.tok = token_pop(@)], nd)
                    ELSE IF nd
                    THEN tree_walk(sub_[c], [r1 EXCEPT !.popfail = TRUE], nd)
                    ELSE [r1 EXCEPT !.popfail = TRUE, !.aborted = TRUE]
            ELSE \* ambiguous matches
                 [r EXCEPT !.cmd = nullptr, !.tied = cmd_vec,
                           !.out = @ \o <<Line("possible completions:", EmptyStr)>>
                                     \o name_lines("    %s", cmd_vec)]

resolve(t, table, nd) ==
    LET c == alias_find(table, token_front(t))
    IN IF c # nullptr
       THEN IF token_pop_ok(t)
            THEN [NoTarget(token_pop(t)) EXCEPT !.cmd = c, !.alias = TRUE]
            ELSE [NoTarget(t) EXCEPT !.cmd = c, !.alias = TRUE,
                                     !.popfail = TRUE, !.aborted = ~nd]
       ELSE tree_walk(RootSub, NoTarget(t), nd)

\* the test of lines 218-223: the last token of tokens() is "?"
wants_usage(t) ==
    /\ t.tokens_ # <<>>
    /\ t.tokens_[Len(t.tokens_)] = <<"?">>

(***************************************************************************)
(* Inputs                                                                  *)
(***************************************************************************)
w_start == <<"s","t","a","r","t">>
w_star == <<"s","t","a","r">>
w_sta == <<"s","t","a">>
w_sto == <<"s","t","o">>
w_stop == <<"s","t","o","p">>
w_st == <<"s","t">>
w_show == <<"s","h","o","w">>
w_ip == <<"i","p">>
w_ix == <<"i","x">>
w_i == <<"i">>
w_nop == <<"n","o","p">>
w_no == <<"n","o">>
w_x == <<"x">>
w_a == <<"a">>
w_q == <<"?">>
w_v == <<"-","v">>
w_k == <<"$","k">>
Blank == <<SP>>

\* words joined by single spaces
RECURSIVE Words(_)
Words(ws) ==
    IF Len(ws) = 0 THEN EmptyStr
    ELSE IF Len(ws) = 1 THEN ws[1]
    ELSE ws[1] \o <<SP>> \o Words(Tail(ws))

\* statements joined by the delimiter
RECURSIVE Semi(_)
Semi(ss) ==
    IF Len(ss) = 0 THEN EmptyStr
    ELSE IF Len(ss) = 1 THEN ss[1]
    ELSE ss[1] \o <<";">> \o Semi(Tail(ss))

Stmts ==
    { w_start, w_star, w_sta, w_sto, w_stop, w_st, w_ip, w_i, w_nop, w_no,
      w_x,
      Words(<<w_st, w_ip>>), Words(<<w_show, w_i>>), Words(<<w_show, w_ip>>),
      Words(<<w_show, w_ix>>), Words(<<w_show, w_q>>),
      Words(<<w_start, w_q>>), Words(<<w_start, w_v, w_q>>),
      Words(<<w_start, w_q, w_v>>), Words(<<w_start, w_a>>),
      Words(<<w_start, w_k>>),
      Words(<<w_v, w_a, w_start>>), Words(<<w_show, w_v, w_a, w_ip>>),
      Words(<<w_v, w_a, w_st>>),
      Blank, w_v, Words(<<w_v, w_a>>),
      <<SP>> \o w_start \o <<SP, SP>> \o w_a \o <<SP>>,
      w_x \o <<TAB>> \o w_x }

Exprs ==
    Stmts \cup
    { EmptyStr, <<";">>,
      Semi(<<w_start, EmptyStr>>), Semi(<<w_start, Blank>>),
      Semi(<<w_start, Blank, EmptyStr>>), Semi(<<w_start, EmptyStr, w_sto>>),
      Semi(<<w_start, w_v>>), Semi(<<w_start, <<SP>> \o w_sto>>),
      Semi(<<w_x, w_start>>), Semi(<<w_nop, w_start>>),
      Semi(<<w_sta, w_start>>), Semi(<<w_start, w_x, w_sto>>),
      Semi(<<Blank, Blank>>), Semi(<<w_start, Blank, Blank>>),
      Semi(<<Words(<<w_show, w_ip>>), Blank, w_start>>),
      Semi(<<Words(<<w_start, w_q>>), EmptyStr>>),
      Semi(<<w_x, Blank>>) }

\* inputs of tokenize: word sequences over a pool of flag words, plain
\* words and an identifier reference, and every string over a small
\* alphabet of separators and word characters
w_x_flag == <<"-","x">>
w_b == <<"b">>
WordPool == {w_v, w_x_flag, w_a, w_b, w_k}
TokAlphabet == {SP, TAB, "a", "-"}
MaxWords == 4
MaxLen == 4
SpecExample ==
    Words(<< w_v, <<"f","o","o">>, <<"b","a","r">>, w_x_flag >>)

TokInputs ==
    {Words(ws) : ws \in UNION {[1..n -> WordPool] : n \in 0..MaxWords}}
    \cup UNION {[1..n -> TokAlphabet] : n \in 0..MaxLen}
    \cup {SpecExample}

\* what history_.back() may yield on an empty vector (undefined behaviour):
\* an indeterminate string, here an empty one, a word or a blank one
JunkStrs == {EmptyStr, w_x, Blank}

MaxSubmits == 2
MaxHistory == 6

(***************************************************************************)
(* Initial state: a parser with its commands and aliases registered and no *)
(* input executed yet.                                                     *)
(***************************************************************************)
Init ==
    /\ pc = "idle"
    /\ history_ = <<>>
    /\ alias_ = AliasSetup
    /\ ndebug \in BOOLEAN
    /\ expr = EmptyStr
    /\ ix = 0
    /\ cmd = EmptyStr
    /\ active = FALSE
    /\ result = FALSE
    /\ stmt = EmptyStr
    /\ prev_cmd = EmptyStr
    /\ depth = 0
    /\ src = 0
    /\ start = 0
    /\ tok = NewTokens
    /\ disp = <<>>
    /\ log = <<>>
    /\ out = <<>>
    /\ nsub = 0
    /\ call = NoCall

\* a caller invokes execute(e)
Submit(e) ==
    /\ pc = "idle"
    /\ nsub < MaxSubmits
    /\ pc' = "split"
    /\ expr' = e
    /\ ix' = 0
    /\ cmd' = EmptyStr
    /\ active' = TRUE
    /\ result' = FALSE
    /\ stmt' = EmptyStr
    /\ prev_cmd' = EmptyStr
    /\ depth' = 0
    /\ src' = 0
    /\ start' = 0
    /\ tok' = NewTokens
    /\ disp' = <<>>
    /\ log' = <<>>
    /\ out' = <<>>
    /\ nsub' = nsub + 1
    /\ UNCHANGED <<history_, alias_, ndebug, call>>

\* split_cmd with the last statement cut one character short
split_cmd_short(e, i) ==
    LET next == str_find(e, ";", i)
    IN IF next = -1
       THEN [cmd |-> substr(e, i, Len(e) - i - 1), ix |-> i, active |-> FALSE]
       ELSE [cmd |-> IF next > i THEN substr(e, i, next - i) ELSE EmptyStr,
             ix |-> next + 1, active |-> TRUE]

\* execute, lines 149-160: the statement cut by one iteration of the loop
split_cmd(e, i) ==
    LET next == str_find(e, ";", i)
    IN IF next = -1
       THEN [cmd |-> substr(e, i, Len(e) - i), ix |-> i, active |-> FALSE]
       ELSE [cmd |-> IF next > i THEN substr(e, i, next - i) ELSE EmptyStr,
             ix |-> next + 1, active |-> TRUE]

\* execute, line 162: is the statement handed to execute_imp
runs_stmt(c) == c # EmptyStr

\* one iteration of the loop of execute, up to the call of execute_imp
Split ==
    /\ pc = "split"
    /\ LET c == split_cmd(expr, ix)
       IN /\ cmd' = c.cmd
          /\ ix' = c.ix
          /\ active' = c.active
          /\ IF runs_stmt(c.cmd)
             THEN /\ pc' = "imp"
                  /\ stmt' = c.cmd
                  /\ depth' = 0
                  /\ UNCHANGED result
             ELSE /\ pc' = IF c.active THEN "split" ELSE "idle"
                  /\ result' = ~c.active
                  /\ UNCHANGED <<stmt, depth>>
    /\ UNCHANGED <<history_, alias_, ndebug, expr, prev_cmd, src, start, tok,
                   disp, log, out, nsub, call>>

\* the values last_cmd() may return
last_cmd(h) == IF h = <<>> THEN JunkStrs ELSE {h[Len(h)]}

\* execute_imp, lines 173-177, and the entry of tokenize
ImpEnter ==
    /\ pc = "imp"
    /\ Len(history_) < MaxHistory
    /\ \E p \in last_cmd(history_) : prev_cmd' = p
    /\ history_' = Append(history_, stmt)
    /\ tok' = NewTokens
    /\ src' = 0
    /\ start' = 0
    /\ pc' = "scan"
    /\ UNCHANGED <<alias_, ndebug, expr, ix, cmd, active, result, stmt, depth,
                   disp, log, out, nsub, call>>

\* history_.back() on an empty vector may also fault
ImpCrash ==
    /\ pc = "imp"
    /\ history_ = <<>>
    /\ pc' = "crashed"
    /\ UNCHANGED <<history_, alias_, ndebug, expr, ix, cmd, active, result,
                   stmt, prev_cmd, depth, src, start, tok, disp, log, out, nsub, call>>

\* tokenize: one iteration of while (*src)
TokStep ==
    /\ pc = "scan"
    /\ CharAt(stmt, src) # ""
    /\ LET n == tokenize_step(stmt, src, start, tok)
       IN /\ src' = n.src
          /\ start' = n.start
          /\ tok' = n.tok
    /\ UNCHANGED <<pc, history_, alias_, ndebug, expr, ix, cmd, active, result,
                   stmt, prev_cmd, depth, disp, log, out, nsub, call>>

\* tokenize: the loop has ended: trailing word, flush, return
TokEnd ==
    /\ pc = "scan"
    /\ CharAt(stmt, src) = ""
    /\ tok' = tokenize_end(stmt, src, start, tok)
    /\ pc' = "tokenized"
    /\ UNCHANGED <<history_, alias_, ndebug, expr, ix, cmd, active, result,
                   stmt, prev_cmd, depth, src, start, disp, log, out, nsub, call>>

\* Return with the early return of line 164 lost: execute carries on with the
\* next statement after a failure
Return_carry_on(v, r, how, lines, calls) ==
    /\ disp' = Append(disp, [stmt |-> cmd, run |-> stmt, depth |-> depth,
                             ret |-> v, how |-> how, tok0 |-> tok, res |-> r,
                             nlog |-> Len(log) + Len(calls),
                             nhist |-> Len(history_),
                             imp_out |-> out \o lines])
    /\ log' = log \o calls
    /\ out' = out \o lines \o (IF v THEN <<>> ELSE command_failed(cmd))
    /\ pc' = IF active THEN "split" ELSE "idle"
    /\ result' = IF active THEN result ELSE v
    /\ tok' = r.tok
    /\ UNCHANGED <<history_, alias_, ndebug, expr, ix, cmd, active, stmt,
                   prev_cmd, depth, src, start, nsub, call>>

\* execute_imp returns v to execute, lines 163-166: r is the resolution it
\* made, how the way it ended, lines what it printed, calls the handler
\* invocations it made.  The entry added to disp also records the token
\* stream as tokenized (tok0), the sizes of log and history_ on return, and
\* the sink as execute_imp left it (imp_out), before execute writes to it.
Return(v, r, how, lines, calls) ==
    /\ disp' = Append(disp, [stmt |-> cmd, run |-> stmt, depth |-> depth,
                             ret |-> v, how |-> how, tok0 |-> tok, res |-> r,
                             nlog |-> Len(log) + Len(calls),
                             nhist |-> Len(history_),
                             imp_out |-> out \o lines])
    /\ log' = log \o calls
    /\ out' = out \o lines \o (IF v THEN <<>> ELSE command_failed(cmd))
    /\ pc' = IF v /\ active THEN "split" ELSE "idle"
    /\ result' = IF v /\ active THEN result ELSE v
    /\ tok' = r.tok
    /\ UNCHANGED <<history_, alias_, ndebug, expr, ix, cmd, active, stmt,
                   prev_cmd, depth, src, start, nsub, call>>

\* execute_imp, lines 178-181: no positional token, repeat the last command
Repeat ==
    /\ pc = "tokenized"
    /\ token_size(tok) = 0
    /\ history_[Len(history_)] # EmptyStr
    /\ out' = Append(out, Line("> %s", prev_cmd))
    /\ stmt' = prev_cmd
    /\ depth' = depth + 1
    /\ pc' = "imp"
    /\ UNCHANGED <<history_, alias_, ndebug, expr, ix, cmd, active, result,
                   prev_cmd, src, start, tok, disp, log, nsub, call>>

\* execute_imp, lines 182-185: no commands entered
NoRepeat ==
    /\ pc = "tokenized"
    /\ token_size(tok) = 0
    /\ history_[Len(history_)] = EmptyStr
    /\ Return(FALSE, NoTarget(tok), "none", <<>>, <<>>)

\* the assert of token_pop fires during resolution
Abort ==
    /\ pc = "tokenized"
    /\ token_size(tok) # 0
    /\ resolve(tok, alias_, ndebug).aborted
    /\ pc' = "aborted"
    /\ UNCHANGED <<history_, alias_, ndebug, expr, ix, cmd, active, result,
                   stmt, prev_cmd, depth, src, start, tok, disp, log, out, nsub, call>>

\* execute_imp, lines 225-228: no target
Invalid ==
    /\ pc = "tokenized"
    /\ token_size(tok) # 0
    /\ LET r == resolve(tok, alias_, ndebug)
       IN /\ ~r.aborted
          /\ r.cmd = nullptr
          /\ Return(FALSE, r, "invalid",
                    r.out \o <<Line("invalid command", EmptyStr)>>, <<>>)

\* execute_imp, lines 217-222: the target's on_usage
Usage ==
    /\ pc = "tokenized"
    /\ token_size(tok) # 0
    /\ LET r == resolve(tok, alias_, ndebug)
           u == on_usage(r.cmd)
       IN /\ ~r.aborted
          /\ r.cmd # nullptr
          /\ wants_usage(r.tok)
          /\ Return(u.ret, r, "on_usage", r.out \o u.out,
                    <<[fn |-> "on_usage", node |-> r.cmd, tok |-> r.tok,
                       ret |-> u.ret]>>)

\* execute_imp, line 224, target with its own on_execute: the handler is
\* application code, it returns either value
ExecOverride ==
    /\ pc = "tokenized"
    /\ token_size(tok) # 0
    /\ LET r == resolve(tok, alias_, ndebug)
       IN /\ ~r.aborted
          /\ r.cmd \in Overrides
          /\ ~wants_usage(r.tok)
          /\ \E v \in BOOLEAN :
                Return(v, r, "on_execute", r.out,
                       <<[fn |-> "on_execute", node |-> r.cmd, tok |-> r.tok,
                          ret |-> v]>>)

\* execute_imp, line 224, target with the default cmd_t::on_execute
ExecDefault ==
    /\ pc = "tokenized"
    /\ token_size(tok) # 0
    /\ LET r == resolve(tok, alias_, ndebug)
       IN /\ ~r.aborted
          /\ r.cmd # nullptr
          /\ r.cmd \notin Overrides
          /\ ~wants_usage(r.tok)
          /\ \E junk \in Junk32 :
                LET e == on_execute(r.cmd, r.tok, junk)
                IN Return(e.ret, r, "on_execute", r.out \o e.out,
                          <<[fn |-> "on_execute", node |-> r.cmd,
                             tok |-> r.tok, ret |-> e.ret]>>)

Next ==
    \/ \E e \in Exprs : Submit(e)
    \/ Split
    \/ ImpEnter
    \/ ImpCrash
    \/ TokStep
    \/ TokEnd
    \/ Repeat
    \/ NoRepeat
    \/ Abort
    \/ Invalid
    \/ Usage
    \/ ExecOverride
    \/ ExecDefault

Spec == Init /\ [][Next]_vars

(***************************************************************************)
(* The tokenizer on its own: tokenize(in, out) called with a fresh         *)
(* cmd_tokens_t on each input                                              *)
(***************************************************************************)
InitTok ==
    /\ pc = "scan"
    /\ stmt \in TokInputs
    /\ src = 0
    /\ start = 0
    /\ tok = NewTokens
    /\ history_ = <<>>
    /\ alias_ = AliasSetup
    /\ ndebug = FALSE
    /\ expr = EmptyStr
    /\ ix = 0
    /\ cmd = EmptyStr
    /\ active = FALSE
    /\ result = FALSE
    /\ prev_cmd = EmptyStr
    /\ depth = 0
    /\ disp = <<>>
    /\ log = <<>>
    /\ out = <<>>
    /\ nsub = 0
    /\ call = NoCall

NextTok ==
    \/ TokStep
    \/ TokEnd

SpecTok == InitTok /\ [][NextTok]_vars

\* the thread runs on: a step that can be taken is taken
FairSpecTok == SpecTok /\ WF_vars(NextTok)

(***************************************************************************)
(* The library functions called directly: cmd_util_t::str_match and        *)
(* find_matches, each on inputs drawn from bounded sets.  call records the *)
(* function, its arguments and what it returned; the functions keep no     *)
(* state, so a behaviour is one call.                                      *)
(***************************************************************************)
parser_vars ==
    <<pc, history_, alias_, ndebug, expr, ix, cmd, active, result, stmt,
      prev_cmd, depth, src, start, tok, disp, log, out, nsub>>

\* every string over alphabet of length at most n
StringsUpTo(alphabet, n) == UNION {[1..k -> alphabet] : k \in 0..n}

\* the sequences of distinct nodes of length 1 to n
NodeLists(n) ==
    {l \in UNION {[1..k -> Nodes] : k \in 1..n} :
        \A i, j \in 1..Len(l) : i # j => l[i] # l[j]}

MatchAlphabet == {"n", "o", "p"}
MaxStr == 3
MaxList == 3
MatchInputs == StringsUpTo(MatchAlphabet, MaxStr) \cup {w_sta, w_start}

InitLib ==
    /\ pc = "lib"
    /\ call = NoCall
    /\ history_ = <<>>
    /\ alias_ = AliasSetup
    /\ ndebug = FALSE
    /\ expr = EmptyStr
    /\ ix = 0
    /\ cmd = EmptyStr
    /\ active = FALSE
    /\ result = FALSE
    /\ stmt = EmptyStr
    /\ prev_cmd = EmptyStr
    /\ depth = 0
    /\ src = 0
    /\ start = 0
    /\ tok = NewTokens
    /\ disp = <<>>
    /\ log = <<>>
    /\ out = <<>>
    /\ nsub = 0

Call_str_match ==
    /\ pc = "lib"
    /\ call = NoCall
    /\ \E str, sub \in MatchInputs :
          call' = [fn |-> "str_match", args |-> <<str, sub>>,
                   ret |-> str_match(str, sub)]
    /\ UNCHANGED parser_vars

Call_find_matches ==
    /\ pc = "lib"
    /\ call = NoCall
    /\ \E list \in NodeLists(MaxList), sub \in MatchInputs :
          call' = [fn |-> "find_matches", args |-> <<list, sub>>,
                   ret |-> find_matches(list, sub)]
    /\ UNCHANGED parser_vars

NextMatch ==
    \/ Call_str_match
    \/ Call_find_matches

SpecMatch == InitLib /\ [][NextMatch]_vars

(***************************************************************************)
(* cmd_util_t::levenshtein called on the pairs of three strings.  Each     *)
(* call has its own alloca'd column, so each reads its own indeterminate   *)
(* value.                                                                  *)
(***************************************************************************)
LevAlphabet == {"a", "b"}
MaxLevLen == 3
LevInputs == StringsUpTo(LevAlphabet, MaxLevLen)
LevCalls == {"aa", "ab", "ba", "bc", "ac"}

Call_levenshtein ==
    /\ pc = "lib"
    /\ call = NoCall
    /\ \E a, b, c \in LevInputs, junk \in [LevCalls -> Junk32] :
          call' = [fn |-> "levenshtein", args |-> <<a, b, c>>,
                   ret |-> [aa |-> levenshtein(a, a, junk["aa"]),
                            ab |-> levenshtein(a, b, junk["ab"]),
                            ba |-> levenshtein(b, a, junk["ba"]),
                            bc |-> levenshtein(b, c, junk["bc"]),
                            ac |-> levenshtein(a, c, junk["ac"])]]
    /\ UNCHANGED parser_vars

NextLev ==
    \/ Call_levenshtein

SpecLev == InitLib /\ [][NextLev]_vars

(***************************************************************************)
(* cmd_util_t::strtoll and cmd_token_t::get called on every string over a  *)
(* small alphabet of signs, prefix characters, digits, a space and letters *)
(* that are digits of no base, and on a numeral too long for 64 bits.      *)
(***************************************************************************)
NumAlphabet == {"-", "0", "x", "1", "5", "F", "a", "G", SP}
MaxNumLen == 4
LongHex == <<"0", "x", "F", "F", "F", "F", "F", "F", "F", "F", "F", "F", "F",
             "F", "F", "F", "F", "F", "1">>
NumInputs == StringsUpTo(NumAlphabet, MaxNumLen) \cup {LongHex}

\* what the caller's out variable may hold before the call
OutBefore == {u64_zero, <<7, 0, 0, 0>>}

Call_strtoll ==
    /\ pc = "lib"
    /\ call = NoCall
    /\ \E in \in NumInputs, out0 \in OutBefore :
          call' = [fn |-> "strtoll", args |-> <<in, out0>>,
                   ret |-> strtoll(in, out0)]
    /\ UNCHANGED parser_vars

Call_token_get ==
    /\ pc = "lib"
    /\ call = NoCall
    /\ \E token_ \in NumInputs, out0 \in OutBefore :
          call' = [fn |-> "token_get", args |-> <<token_, out0>>,
                   ret |-> token_get(token_, out0)]
    /\ UNCHANGED parser_vars

NextNum ==
    \/ Call_strtoll
    \/ Call_token_get

SpecNum == InitLib /\ [][NextNum]_vars

(***************************************************************************)
(* The alias table under alias_add and the two alias_remove, called in any *)
(* order with any node and any of a few alias names.  call keeps the table *)
(* as it was before the last call.                                         *)
(***************************************************************************)
AliasNames == {w_st, w_stop, w_ip}

InitAlias ==
    /\ pc = "alias"
    /\ call = NoCall
    /\ history_ = <<>>
    /\ alias_ = AliasSetup
    /\ ndebug = FALSE
    /\ expr = EmptyStr
    /\ ix = 0
    /\ cmd = EmptyStr
    /\ active = FALSE
    /\ result = FALSE
    /\ stmt = EmptyStr
    /\ prev_cmd = EmptyStr
    /\ depth = 0
    /\ src = 0
    /\ start = 0
    /\ tok = NewTokens
    /\ disp = <<>>
    /\ log = <<>>
    /\ out = <<>>
    /\ nsub = 0

AliasAdd ==
    /\ pc = "alias"
    /\ \E c \in Nodes, a \in AliasNames :
          /\ alias_' = alias_add(alias_, c, a)
          /\ call' = [fn |-> "alias_add", args |-> <<c, a>>, pre |-> alias_,
                      ret |-> TRUE]
    /\ UNCHANGED <<pc, history_, ndebug, expr, ix, cmd, active, result, stmt,
                   prev_cmd, depth, src, start, tok, disp, log, out, nsub>>

AliasRemoveName ==
    /\ pc = "alias"
    /\ \E a \in AliasNames :
          LET r == alias_remove_name(alias_, a)
          IN /\ alias_' = r.table
             /\ call' = [fn |-> "alias_remove_name", args |-> <<a>>,
                         pre |-> alias_, ret |-> r.ret]
    /\ UNCHANGED <<pc, history_, ndebug, expr, ix, cmd, active, result, stmt,
                   prev_cmd, depth, src, start, tok, disp, log, out, nsub>>

AliasRemoveCmd ==
    /\ pc = "alias"
    /\ \E c \in Nodes :
          /\ alias_' = alias_remove_cmd(alias_, c)
          /\ call' = [fn |-> "alias_remove_cmd", args |-> <<c>>,
                      pre |-> alias_, ret |-> TRUE]
    /\ UNCHANGED <<pc, history_, ndebug, expr, ix, cmd, active, result, stmt,
                   prev_cmd, depth, src, start, tok, disp, log, out, nsub>>

NextAlias ==
    \/ AliasAdd
    \/ AliasRemoveName
    \/ AliasRemoveCmd

SpecAlias == InitAlias /\ [][NextAlias]_vars

(***************************************************************************)
(* A cmd_tokens_t under push, token_pop and the get overloads, called in   *)
(* any order.  call keeps the last call and what it returned.              *)
(***************************************************************************)
StreamWords == {w_a, w_b, w_v, w_x_flag, w_k}
MaxRaw == 4

InitStream ==
    /\ pc = "stream"
    /\ call = NoCall
    /\ tok = NewTokens
    /\ ndebug \in BOOLEAN
    /\ history_ = <<>>
    /\ alias_ = AliasSetup
    /\ expr = EmptyStr
    /\ ix = 0
    /\ cmd = EmptyStr
    /\ active = FALSE
    /\ result = FALSE
    /\ stmt = EmptyStr
    /\ prev_cmd = EmptyStr
    /\ depth = 0
    /\ src = 0
    /\ start = 0
    /\ disp = <<>>
    /\ log = <<>>
    /\ out = <<>>
    /\ nsub = 0

StreamPush ==
    /\ pc = "stream"
    /\ Len(tok.raw_) < MaxRaw
    /\ \E input \in StreamWords \cup {EmptyStr} :
          /\ tok' = push(tok, input)
          /\ call' = [fn |-> "push", args |-> <<input>>, ret |-> TRUE]
    /\ UNCHANGED <<pc, history_, alias_, ndebug, expr, ix, cmd, active, result,
                   stmt, prev_cmd, depth, src, start, disp, log, out, nsub>>

\* token_pop: pops, or fails: the assert aborts, or is compiled out and
\* false is returned
StreamTokenPop ==
    /\ pc = "stream"
    /\ IF token_pop_ok(tok)
       THEN /\ tok' = token_pop(tok)
            /\ call' = [fn |-> "token_pop", args |-> <<>>, ret |-> TRUE]
            /\ UNCHANGED pc
       ELSE /\ tok' = token_pop(tok)
            /\ call' = [fn |-> "token_pop", args |-> <<>>, ret |-> FALSE]
            /\ pc' = IF ndebug THEN pc ELSE "aborted"
    /\ UNCHANGED <<history_, alias_, ndebug, expr, ix, cmd, active, result,
                   stmt, prev_cmd, depth, src, start, disp, log, out, nsub>>

StreamGetString ==
    /\ pc = "stream"
    /\ LET r == get_string(tok)
       IN /\ tok' = r.t
          /\ call' = [fn |-> "get_string", args |-> <<>>, ret |-> r.ret,
                      out |-> r.out]
    /\ UNCHANGED <<pc, history_, alias_, ndebug, expr, ix, cmd, active, result,
                   stmt, prev_cmd, depth, src, start, disp, log, out, nsub>>

StreamGetUint64 ==
    /\ pc = "stream"
    /\ LET r == get_uint64(tok)
       IN /\ tok' = r.t
          /\ call' = [fn |-> "get_uint64", args |-> <<>>, ret |-> r.ret,
                      out |-> r.out]
    /\ UNCHANGED <<pc, history_, alias_, ndebug, expr, ix, cmd, active, result,
                   stmt, prev_cmd, depth, src, start, disp, log, out, nsub>>

NextStream ==
    \/ StreamPush
    \/ StreamTokenPop
    \/ StreamGetString
    \/ StreamGetUint64

SpecStream == InitStream /\ [][NextStream]_vars

(***************************************************************************)
(* Notions the claims are stated in                                        *)
(***************************************************************************)
\* the ';'-separated segments of an expression, left to right
RECURSIVE SegmentsOf(_)
SegmentsOf(e) ==
    IF \A i \in 1..Len(e) : e[i] # ";" THEN <<e>>
    ELSE LET k == CHOOSE i \in 1..Len(e) :
                     e[i] = ";" /\ \A j \in 1..(i - 1) : e[j] # ";"
         IN <<SubSeq(e, 1, k - 1)>> \o SegmentsOf(SubSeq(e, k + 1, Len(e)))

IsNonEmpty(x) == x # EmptyStr
NonEmptySegs(e) == SelectSeq(SegmentsOf(e), IsNonEmpty)

\* execute has returned
Returned == pc = "idle" /\ nsub > 0

\* C1: execute dispatches the non-empty statements of expr left to right;
\* the first execute_imp that returns false ends execute with false, and
\* after it nothing more is recorded in history_, tokenized or handed to a
\* handler; when execute returns and every dispatched statement succeeded,
\* every statement was dispatched and execute returned true.
C1_FirstFailureAborts ==
    LET ne == NonEmptySegs(expr)
    IN /\ Len(disp) <= Len(ne)
       /\ \A i \in 1..Len(disp) :
            /\ disp[i].stmt = ne[i]
            /\ ~disp[i].ret =>
                  /\ i = Len(disp)
                  /\ Returned
                  /\ ~result
                  /\ Len(history_) = disp[i].nhist
                  /\ Len(log) = disp[i].nlog
                  /\ tok = disp[i].res.tok
       /\ (Returned /\ \A i \in 1..Len(disp) : disp[i].ret) =>
            /\ result
            /\ Len(disp) = Len(ne)

\* C1 witness: execute returned false at a failing statement and left later
\* statements of the expression undispatched
C1_Witness ==
    /\ Returned
    /\ ~result
    /\ Len(disp) >= 2
    /\ ~disp[Len(disp)].ret
    /\ Len(disp) < Len(NonEmptySegs(expr))

\* the index in disp of the call made for segment i of segs
CallOf(segs, i) == Cardinality({j \in 1..i : segs[j] # EmptyStr})

\* C2: when a statement S with a positional token has executed successfully
\* and the statement submitted right after it is empty, S is executed
\* again: the same handler is invoked with the same tokens, and its result
\* is the result of the empty statement.
C2_EmptyRepeatsLast ==
    Returned =>
        LET segs == SegmentsOf(expr)
        IN \A i \in 1..(Len(segs) - 1) :
             LET k == CallOf(segs, i)
             IN (/\ segs[i] # EmptyStr
                 /\ segs[i + 1] = EmptyStr
                 /\ k <= Len(disp)
                 /\ disp[k].depth = 0
                 /\ token_size(disp[k].tok0) > 0
                 /\ disp[k].ret)
                => /\ Len(disp) > k
                   /\ disp[k + 1].stmt = EmptyStr
                   /\ disp[k + 1].res.cmd = disp[k].res.cmd
                   /\ disp[k + 1].res.tok = disp[k].res.tok
                   /\ disp[k + 1].nlog = disp[k].nlog + 1
                   /\ disp[k + 1].ret = log[disp[k + 1].nlog].ret

Range(f) == {f[i] : i \in DOMAIN f}
Last(q) == q[Len(q)]

\* p is a prefix of s
IsPrefix(p, s) == Len(p) <= Len(s) /\ SubSeq(s, 1, Len(p)) = p

\* the prefix score of a token against a name: the exact name ranks above
\* every prefix, a longer prefix above a shorter one, anything else is out
PrefixScore(name, sub) ==
    IF sub = name THEN Len(name) + 1
    ELSE IF sub # EmptyStr /\ IsPrefix(sub, name) THEN Len(sub)
    ELSE -1

\* the siblings of list that tie at the top prefix score for sub
TopTied(list, sub) ==
    {n \in Range(list) :
        /\ PrefixScore(name_[n], sub) > 0
        /\ \A m \in Range(list) :
              PrefixScore(name_[m], sub) <= PrefixScore(name_[n], sub)}

\* the sibling list the walk of call d matched at level j
LevelList(d, j) == IF j = 1 THEN RootSub ELSE sub_[d.res.path[j - 1]]

\* the handler invocations in log before call i of disp
LogBefore(i) == IF i = 1 THEN 0 ELSE disp[i - 1].nlog

\* C3: whenever two or more siblings tie at the top prefix score for the
\* front token at some level of the tree walk, the statement resolves to no
\* target: no on_execute or on_usage is invoked (not on a parent resolved
\* at an earlier level either), every tied candidate is printed and
\* execute_imp returns false.
C3_AmbiguityHasNoTarget ==
    \A i \in 1..Len(disp) :
        LET d == disp[i]
        IN \A j \in 1..Len(d.res.fronts) :
             LET T == TopTied(LevelList(d, j), d.res.fronts[j])
             IN Cardinality(T) >= 2 =>
                  /\ d.res.cmd = nullptr
                  /\ d.how = "invalid"
                  /\ ~d.ret
                  /\ d.nlog = LogBefore(i)
                  /\ \A n \in T :
                        \E q \in 1..Len(out) :
                            out[q] = Line("    %s", name_[n])

\* C3 witness: a tie among the children of a node resolved one level up
C3_Witness ==
    \E i \in 1..Len(disp) :
        /\ Len(disp[i].res.path) = 1
        /\ Len(disp[i].res.fronts) = 2
        /\ Cardinality(TopTied(LevelList(disp[i], 2), disp[i].res.fronts[2])) = 2
        /\ ~disp[i].ret

\* the calls of disp whose statement had exactly the positional tokens ts
CallsWithTokens(ts) == {i \in 1..Len(disp) : disp[i].tok0.tokens_ = ts}

\* C4 as claimed: with status, stop and start children of the root, "sto"
\* is ambiguous between status and stop, and "star" resolves to start.
C4_StoAmbiguous ==
    /\ \A i \in CallsWithTokens(<<w_sto>>) :
          /\ disp[i].res.cmd = nullptr
          /\ disp[i].res.tied = <<1, 2>>
    /\ \A i \in CallsWithTokens(<<w_star>>) :
          /\ disp[i].res.cmd = 3
          /\ disp[i].res.tied = <<>>

\* C4 as amended: with status, stop and start children of the root, "sto"
\* resolves uniquely to stop ("sto" is no prefix of "status") and "star"
\* uniquely to start, while "sta" is ambiguous: status and start tie at
\* prefix length 3.
C4_StoUnique ==
    /\ \A i \in CallsWithTokens(<<w_sto>>) :
          /\ disp[i].res.cmd = 2
          /\ disp[i].res.path = <<2>>
          /\ disp[i].res.tied = <<>>
    /\ \A i \in CallsWithTokens(<<w_star>>) :
          /\ disp[i].res.cmd = 3
          /\ disp[i].res.path = <<3>>
          /\ disp[i].res.tied = <<>>
    /\ \A i \in CallsWithTokens(<<w_sta>>) :
          /\ disp[i].res.cmd = nullptr
          /\ disp[i].res.tied = <<1, 3>>
          /\ str_match(name_[1], w_sta) = 3
          /\ str_match(name_[3], w_sta) = 3

\* C4 witness: all three tokens have been resolved
C4_Witness ==
    /\ CallsWithTokens(<<w_sto>>) # {}
    /\ \A i \in CallsWithTokens(<<w_sto>>) : disp[i].res.cmd = 2

\* C5: when the first positional token of a statement is a registered alias
\* name, the target is the aliased node, exactly one positional token is
\* consumed and no tree walk happens; a token that is no alias name never
\* selects an alias.
C5_AliasTakesOneToken ==
    \A i \in 1..Len(disp) :
        LET d == disp[i]
        IN d.tok0.tokens_ # <<>> =>
             IF Head(d.tok0.tokens_) \in DOMAIN alias_
             THEN /\ d.res.alias
                  /\ d.res.cmd = alias_[Head(d.tok0.tokens_)]
                  /\ d.res.tok.tokens_ = Tail(d.tok0.tokens_)
                  /\ d.res.path = <<>>
             ELSE ~d.res.alias

\* C6: for a statement that resolves to a target, on_usage is invoked
\* exactly when the last raw token left after resolution is "?", and
\* on_execute otherwise.
C6_UsageIffLastRawIsQuery ==
    \A i \in 1..Len(disp) :
        LET d == disp[i]
        IN d.res.cmd # nullptr =>
             /\ d.nlog = LogBefore(i) + 1
             /\ log[d.nlog].node = d.res.cmd
             /\ log[d.nlog].fn =
                  IF d.res.tok.raw_ # <<>> /\ Last(d.res.tok.raw_) = w_q
                  THEN "on_usage" ELSE "on_execute"

\* C7: every token_pop of the resolution succeeds: the fronts of raw_ and
\* tokens_ agree and the "failed to pop" assertion is never reached.
C7_PopAlwaysSucceeds ==
    /\ pc # "aborted"
    /\ \A i \in 1..Len(disp) : ~disp[i].res.popfail

IsBlankCh(c) == c = SP \/ c = TAB
IsBlankStr(x) == \A i \in 1..Len(x) : IsBlankCh(x[i])
IsNonBlank(x) == ~IsBlankStr(x)

\* C10: execute hands a segment to execute_imp exactly when the segment is
\* non-empty after trimming: the calls made are the non-blank segments, in
\* order, and no blank statement is recorded in history_.
C10_BlankSegmentsSkipped ==
    LET nb == SelectSeq(SegmentsOf(expr), IsNonBlank)
    IN /\ Len(disp) <= Len(nb)
       /\ \A i \in 1..Len(disp) : disp[i].stmt = nb[i]
       /\ \A h \in 1..Len(history_) : IsNonBlank(history_[h])
       /\ (Returned /\ \A i \in 1..Len(disp) : disp[i].ret) =>
             Len(disp) = Len(nb)

\* the maximal runs of characters that are neither space nor tab, in order
RECURSIVE RunsOf(_)
RunsOf(s) ==
    IF s = EmptyStr THEN <<>>
    ELSE IF IsBlankCh(s[1]) THEN RunsOf(Tail(s))
    ELSE LET k == CHOOSE n \in 1..Len(s) :
                     /\ \A j \in 1..n : ~IsBlankCh(s[j])
                     /\ n = Len(s) \/ IsBlankCh(s[n + 1])
         IN <<SubSeq(s, 1, k)>> \o RunsOf(SubSeq(s, k + 1, Len(s)))

\* the words of a statement, each after identifier substitution
WordsOf(s) == LET r == RunsOf(s) IN [i \in 1..Len(r) |-> substitute(r[i])]

IsFlagWord(w) == w[1] = "-"

\* word i of ws is a flag whose next word is its value
IsPairFlag(ws, i) ==
    IsFlagWord(ws[i]) /\ i < Len(ws) /\ ~IsFlagWord(ws[i + 1])
\* word i of ws is a flag with no value
IsLoneFlag(ws, i) == IsFlagWord(ws[i]) /\ ~IsPairFlag(ws, i)
\* word i of ws is neither a flag nor the value of one
IsPositional(ws, i) ==
    ~IsFlagWord(ws[i]) /\ (i = 1 \/ ~IsFlagWord(ws[i - 1]))

RECURSIVE PositionalFrom(_, _)
PositionalFrom(ws, i) ==
    IF i > Len(ws) THEN <<>>
    ELSE (IF IsPositional(ws, i) THEN <<ws[i]>> ELSE <<>>)
         \o PositionalFrom(ws, i + 1)

\* what the specification's example must yield
ExampleHolds ==
    stmt = SpecExample =>
        /\ tok.flags_ = {w_x_flag}
        /\ DOMAIN tok.pairs_ = {w_v}
        /\ tok.pairs_[w_v] = <<"f","o","o">>
        /\ tok.tokens_ = << <<"b","a","r">> >>

\* C8 as claimed: after tokenizing, every flag word directly followed by a
\* non-flag word is a pairs entry mapping the flag to that word, the flags
\* followed by a flag or by the end are the flags, the remaining words are
\* the positional tokens in order, and nothing is left staged.
C8_EveryPairKept ==
    pc = "tokenized" =>
        LET ws == WordsOf(stmt)
        IN /\ \A i \in 1..Len(ws) :
                IsPairFlag(ws, i) =>
                    /\ ws[i] \in DOMAIN tok.pairs_
                    /\ tok.pairs_[ws[i]] = ws[i + 1]
           /\ tok.flags_ = {ws[i] : i \in {j \in 1..Len(ws) : IsLoneFlag(ws, j)}}
           /\ tok.tokens_ = PositionalFrom(ws, 1)
           /\ tok.stage_pair_ = EmptyStr
           /\ ExampleHolds

\* C8 as amended: the words are taken after identifier substitution, and
\* pairs maps each flag name that is directly followed by a non-flag word
\* to the word following its last such occurrence (a later pair of the
\* same flag replaces the earlier one); the flags followed by a flag or by
\* the end are the flags, the remaining words are the positional tokens in
\* order, and nothing is left staged.
C8_LastPairWins ==
    pc = "tokenized" =>
        LET ws == WordsOf(stmt)
            pf == {i \in 1..Len(ws) : IsPairFlag(ws, i)}
            last(f) == CHOOSE i \in pf :
                          ws[i] = f /\ \A j \in pf : ws[j] = f => j <= i
        IN /\ DOMAIN tok.pairs_ = {ws[i] : i \in pf}
           /\ \A f \in DOMAIN tok.pairs_ : tok.pairs_[f] = ws[last(f) + 1]
           /\ tok.flags_ = {ws[i] : i \in {j \in 1..Len(ws) : IsLoneFlag(ws, j)}}
           /\ tok.tokens_ = PositionalFrom(ws, 1)
           /\ tok.stage_pair_ = EmptyStr
           /\ ExampleHolds

\* C8 witness: a flag paired twice, the second value has replaced the first
C8_Witness ==
    /\ pc = "tokenized"
    /\ stmt = Words(<<w_v, w_a, w_v, w_b>>)
    /\ tok.pairs_[w_v] = w_b
    /\ tok.tokens_ = <<>>

\* C9: for every input, tokenize returns, and the raw words it produced are
\* the maximal runs of characters that are neither space nor tab, in order.
C9_RawIsRuns == <>(pc = "tokenized" /\ tok.raw_ = WordsOf(stmt))

\* a statement without positional tokens
NoPositional(s) == PositionalFrom(WordsOf(s), 1) = <<>>

\* the statements of history_ up to position n are all blank
AllBlankUpTo(n) == \A h \in 1..n : IsBlankStr(history_[h])

\* history_ as it was when execute called execute_imp for the statement
\* in progress: the statement and each repeat of it have pushed one entry
PriorLen ==
    Len(history_) - depth - (IF pc \in {"scan", "tokenized"} THEN 1 ELSE 0)

\* C11: when a statement without positional tokens is submitted and
\* history_ holds no earlier non-blank statement, execute_imp returns false
\* at once: it reads nothing it cannot read, repeats nothing, and invokes
\* neither on_execute nor on_usage.
C11_NothingToRepeatFails ==
    /\ pc = "crashed" => ~NoPositional(stmt)
    /\ (pc \in {"imp", "scan", "tokenized"} /\ depth > 0) =>
          ~AllBlankUpTo(PriorLen)
    /\ \A i \in 1..Len(disp) :
          LET d == disp[i]
          IN (NoPositional(d.stmt) /\ AllBlankUpTo(d.nhist - d.depth - 1)) =>
                /\ ~d.ret
                /\ d.how = "none"
                /\ d.depth = 0
                /\ d.nlog = LogBefore(i)

\* the invocations in log of the default cmd_t::on_execute
DefaultCalls ==
    {k \in 1..Len(log) : log[k].fn = "on_execute" /\ log[k].node \notin Overrides}

\* C12: the default on_execute returns false exactly when the node has no
\* children; on a node with children it returns true both with no
\* positional token left (children listed) and with a front token that
\* matches no child ("no subcommand" printed), and then the statement
\* "<parent> <unknown word>" makes execute return true.
C12_DefaultFailsIffChildless ==
    /\ \A k \in DefaultCalls :
          /\ log[k].ret = (sub_[log[k].node] # <<>>)
          /\ (sub_[log[k].node] # <<>> /\ ~token_empty(log[k].tok)) =>
                \E q \in 1..Len(out) :
                    out[q] = Line("no subcommand '%s'", token_front(log[k].tok))
    /\ (Returned /\ Len(disp) = 1 /\ disp[1].stmt = expr
          /\ disp[1].how = "on_execute" /\ disp[1].res.cmd \notin Overrides) =>
          result = (sub_[disp[1].res.cmd] # <<>>)

\* C12 witness: "show ix" reached show's default on_execute with the
\* unknown word in front, and execute returned true
C12_Witness ==
    /\ Returned
    /\ result
    /\ expr = Words(<<w_show, w_ix>>)
    /\ \E k \in DefaultCalls :
          /\ log[k].node = 4
          /\ log[k].tok.tokens_ = <<w_ix>>
          /\ log[k].ret

\* C13: for every non-empty name, str_match(name, "") is negative.
C13_EmptySubNoMatch ==
    (call.fn = "str_match" /\ call.args[1] # EmptyStr
        /\ call.args[2] = EmptyStr) => call.ret < 0

\* the prefixes of s, s included
PrefixesOf(s) == {SubSeq(s, 1, k) : k \in 0..Len(s)}

\* C14: the score of a prefix of name never exceeds the score of a longer
\* prefix; str_match(name, name) is INT_MAX and above the score of every
\* proper prefix; a sub that is no prefix of name scores negative; and
\* find_matches on a sibling list that holds the token's exact name yields
\* that sibling alone, whatever other siblings the token prefixes.
C14_ScoresOrdered ==
    /\ call.fn = "str_match" =>
          LET name == call.args[1]
              q == call.args[2]
          IN /\ q \in PrefixesOf(name) =>
                   /\ \A p \in PrefixesOf(name) :
                         Len(p) <= Len(q) => str_match(name, p) <= call.ret
                   /\ q = name => call.ret = INT_MAX
                   /\ q # name => call.ret < str_match(name, name)
             /\ q \notin PrefixesOf(name) => call.ret < 0
    /\ call.fn = "find_matches" =>
          LET list == call.args[1]
              sub == call.args[2]
          IN \A i \in 1..Len(list) :
                name_[list[i]] = sub => call.ret = <<list[i]>>

\* C14 witness: "no" against the siblings nop and no, in this order: the
\* exact name is found after the sibling it only prefixes and replaces it
C14_Witness ==
    /\ call.fn = "find_matches"
    /\ call.args = <<<<7, 8>>, w_no>>
    /\ call.ret = <<8>>

\* C15: for all strings a, b, c, the empty string included:
\* levenshtein(a, a) = 0, levenshtein(a, b) = 0 only if a = b,
\* levenshtein(a, b) = levenshtein(b, a), and
\* levenshtein(a, c) <= levenshtein(a, b) + levenshtein(b, c).
C15_LevenshteinIsMetric ==
    call.fn = "levenshtein" =>
        /\ call.ret.aa = 0
        /\ call.ret.ab = 0 => call.args[1] = call.args[2]
        /\ call.ret.ab = call.ret.ba
        /\ call.ret.ac <= call.ret.ab + call.ret.bc

\* the value of a digit character
ValueOfDigit ==
    ("0" :> 0) @@ ("1" :> 1) @@ ("2" :> 2) @@ ("3" :> 3) @@ ("4" :> 4) @@
    ("5" :> 5) @@ ("6" :> 6) @@ ("7" :> 7) @@ ("8" :> 8) @@ ("9" :> 9) @@
    ("a" :> 10) @@ ("b" :> 11) @@ ("c" :> 12) @@ ("d" :> 13) @@ ("e" :> 14) @@
    ("f" :> 15) @@ ("A" :> 10) @@ ("B" :> 11) @@ ("C" :> 12) @@ ("D" :> 13) @@
    ("E" :> 14) @@ ("F" :> 15)

\* a numeral read as: optional '-', optional "0x", the rest
IsNegative(tk) == tk # <<>> /\ tk[1] = "-"
Unsigned(tk) == IF IsNegative(tk) THEN Tail(tk) ELSE tk
HasHexPrefix(u) == Len(u) >= 2 /\ u[1] = "0" /\ u[2] = "x"
BaseOf(tk) == IF HasHexPrefix(Unsigned(tk)) THEN 16 ELSE 10
DigitsPart(tk) ==
    LET u == Unsigned(tk)
    IN IF HasHexPrefix(u) THEN SubSeq(u, 3, Len(u)) ELSE u

IsDigitOf(ch, base) == ch \in DOMAIN ValueOfDigit /\ ValueOfDigit[ch] < base

\* tk is optional '-', optional "0x", then one or more digits of the base
IsNumeral(tk) ==
    /\ DigitsPart(tk) # <<>>
    /\ \A i \in 1..Len(DigitsPart(tk)) : IsDigitOf(DigitsPart(tk)[i], BaseOf(tk))

\* the number a short digit string denotes
RECURSIVE NumberOf(_, _)
NumberOf(ds, base) ==
    IF ds = <<>> THEN 0
    ELSE NumberOf(SubSeq(ds, 1, Len(ds) - 1), base) * base
         + ValueOfDigit[ds[Len(ds)]]

\* the number a digit string denotes modulo 2^64, as 16-bit limbs: of a
\* hexadecimal numeral the last sixteen digits, four to a limb; of a
\* decimal numeral of at most nine digits its value
ModU64(ds, base) ==
    IF base = 16
    THEN LET padded == [i \in 1..16 |-> "0"] \o ds
             low == SubSeq(padded, Len(padded) - 15, Len(padded))
         IN <<NumberOf(SubSeq(low, 13, 16), 16), NumberOf(SubSeq(low, 9, 12), 16),
              NumberOf(SubSeq(low, 5, 8), 16), NumberOf(SubSeq(low, 1, 4), 16)>>
    ELSE LET v == NumberOf(ds, 10)
         IN <<v % LIMB, v \div LIMB, 0, 0>>

\* x + y = 0 modulo 2^64
SumsToZero(x, y) ==
    LET s1 == x[1] + y[1]
        s2 == x[2] + y[2] + s1 \div LIMB
        s3 == x[3] + y[3] + s2 \div LIMB
        s4 == x[4] + y[4] + s3 \div LIMB
    IN s1 % LIMB = 0 /\ s2 % LIMB = 0 /\ s3 % LIMB = 0 /\ s4 % LIMB = 0

\* the 64-bit patterns of -5 and of 31
MinusFive == <<65531, 65535, 65535, 65535>>
ThirtyOne == <<31, 0, 0, 0>>

\* C16: the numeric accessor of a token, on optional '-', optional "0x" and
\* one or more digits of the base, succeeds and yields the numeral's value
\* modulo 2^64, negated when '-' is present; "-5" yields -5 and "0x1F" 31.
C16_NumeralParsed ==
    (call.fn = "token_get" /\ IsNumeral(call.args[1])) =>
        LET tk == call.args[1]
            m == ModU64(DigitsPart(tk), BaseOf(tk))
        IN /\ call.ret.ret
           /\ IF IsNegative(tk) THEN SumsToZero(call.ret.out, m)
              ELSE call.ret.out = m
           /\ tk = <<"-", "5">> => call.ret.out = MinusFive
           /\ tk = <<"0", "x", "1", "F">> => call.ret.out = ThirtyOne

\* C16 witness: "-5" has been read as -5
C16_Witness ==
    /\ call.fn = "token_get"
    /\ call.args[1] = <<"-", "5">>
    /\ call.ret.ret
    /\ call.ret.out = MinusFive

\* C17: strtoll returns false for every input whose first character, after
\* the optional '-' and the optional "0x", that is no digit of the base is
\* not a space either, in base 10 and in base 16 alike ("12a" and "0x1G"
\* both fail); only a space met there is reported as success.
C17_GarbageRejected ==
    call.fn = "strtoll" =>
        LET in == call.args[1]
            ds == DigitsPart(in)
        IN (\E i \in 1..Len(ds) :
                /\ ds[i] # SP
                /\ ~IsDigitOf(ds[i], BaseOf(in))
                /\ \A j \in 1..(i - 1) : IsDigitOf(ds[j], BaseOf(in)))
           => ~call.ret.ret

\* C18: after alias_remove(cmd), alias_find returns cmd for no alias name
\* and every entry whose target is another node is as it was, and no entry
\* has appeared; alias_remove(name) erases the entry of that name, if any,
\* and leaves every other entry as it was.
C18_RemoveFrame ==
    /\ call.fn = "alias_remove_cmd" =>
          LET c == call.args[1]
          IN /\ \A a \in AliasNames \cup DOMAIN call.pre :
                   alias_find(alias_, a) # c
             /\ \A a \in DOMAIN call.pre :
                   call.pre[a] # c =>
                      a \in DOMAIN alias_ /\ alias_[a] = call.pre[a]
             /\ DOMAIN alias_ \subseteq DOMAIN call.pre
    /\ call.fn = "alias_remove_name" =>
          /\ DOMAIN alias_ = DOMAIN call.pre \ {call.args[1]}
          /\ \A a \in DOMAIN alias_ : alias_[a] = call.pre[a]
          /\ call.ret = (call.args[1] \in DOMAIN call.pre)

\* C18 witness: a node with two aliases and another node with one;
\* alias_remove of the first node has left only the other node's alias
C18_Witness ==
    /\ call.fn = "alias_remove_cmd"
    /\ Cardinality({a \in DOMAIN call.pre : call.pre[a] = call.args[1]}) = 2
    /\ Cardinality(DOMAIN call.pre) = 3
    /\ Cardinality(DOMAIN alias_) = 1

\* C19: in every state of a token stream reached by push, token_pop and
\* get, raw_ holds at least as many words as tokens_ and pairs_ together.
C19_RawCoversTokensAndPairs ==
    Len(tok.raw_) >= Len(tok.tokens_) + Cardinality(DOMAIN tok.pairs_)

\* C19 witness: a stream with a pair and a numeric token; get(uint64_t&)
\* has taken the token from tokens_ and left it in raw_
C19_Witness ==
    /\ call.fn = "get_uint64"
    /\ call.ret
    /\ call.out = <<42, 0, 0, 0>>
    /\ tok.tokens_ = <<>>
    /\ Cardinality(DOMAIN tok.pairs_) = 1
    /\ Len(tok.raw_) = 3

\* execute has returned from a statement s without ';' that has a
\* positional token
RanOneStatement ==
    /\ Returned
    /\ \A i \in 1..Len(expr) : expr[i] # ";"
    /\ ~NoPositional(expr)

\* what execute and its one call of execute_imp agree on: execute_imp was
\* called once, with s, execute returned what it returned, and history_
\* and the handler invocations are as it left them
SameCallAndEffects ==
    /\ Len(disp) = 1
    /\ disp[1].run = expr
    /\ disp[1].depth = 0
    /\ result = disp[1].ret
    /\ Len(history_) = disp[1].nhist
    /\ history_[Len(history_)] = expr
    /\ Len(log) = disp[1].nlog

\* C20 as claimed: execute(s) and one execute_imp(s) from the same state
\* give the same return value, history, handler invocations and output,
\* when s succeeds and when it fails.
C20_ExecuteIsOneCall ==
    RanOneStatement =>
        /\ SameCallAndEffects
        /\ out = disp[1].imp_out

\* C20 as amended: the same, except that when s fails execute writes one
\* more line to the sink after the output of execute_imp: the report that
\* the statement failed.
C20_ExecuteIsOneCallPlusReport ==
    RanOneStatement =>
        /\ SameCallAndEffects
        /\ out = disp[1].imp_out
                 \o (IF result THEN <<>> ELSE command_failed(expr))

\* C20 witness: "x" resolved to nothing: "invalid command" from
\* execute_imp, then the report from execute
C20_Witness ==
    /\ RanOneStatement
    /\ expr = w_x
    /\ ~result
    /\ disp[1].imp_out = <<Line("invalid command", EmptyStr)>>
    /\ Len(out) = 2

\* the calls of disp whose target was sought by the tree walk
WalkCalls ==
    {i \in 1..Len(disp) :
        disp[i].tok0.tokens_ # <<>> /\ ~disp[i].res.alias}

\* the number of positional tokens the resolution of call d consumed
Consumed(d) == Len(d.tok0.tokens_) - Len(d.res.tok.tokens_)

\* the walk of call d ended because its front token matched no child
StoppedUnmatched(d) ==
    /\ d.res.tied = <<>>
    /\ Len(d.res.fronts) > Len(d.res.path)

\* C21: the tree walk never backtracks and consumes exactly one positional
\* token per level descended: the depth of the resolved node equals the
\* number of positional tokens consumed, the tokens left are the tokens
\* after the consumed ones, each node of the resolved path is a child of
\* the one before it and its consumed token is its name or a non-empty
\* prefix of it, and when the front token matches no child the walk stops
\* with the last resolved node as target (none, and failure, if nothing was
\* resolved) and the unmatched token still at the front.
C21_WalkOneTokenPerLevel ==
    \A i \in WalkCalls :
        LET d == disp[i]
            path == d.res.path
            n == Len(path)
            toks == d.tok0.tokens_
        IN /\ Consumed(d) = n
           /\ d.res.tok.tokens_ = SubSeq(toks, n + 1, Len(toks))
           /\ \A j \in 1..n :
                 /\ parent_[path[j]] = (IF j = 1 THEN nullptr ELSE path[j - 1])
                 /\ j <= Len(toks)
                 /\ toks[j] # EmptyStr
                 /\ IsPrefix(toks[j], name_[path[j]])
           /\ StoppedUnmatched(d) =>
                 /\ d.res.cmd = (IF n = 0 THEN nullptr ELSE path[n])
                 /\ n < Len(toks)
                 /\ Head(d.res.tok.tokens_) = toks[n + 1]
                 /\ TopTied(LevelList(d, n + 1), toks[n + 1]) = {}
                 /\ n = 0 => ~d.ret

\* the iteration of the scanning loop about to run moves src forward
LoopAdvances ==
    (pc = "scan" /\ CharAt(stmt, src) # "") =>
        tokenize_step(stmt, src, start, tok).src > src

\* C22: tokenize terminates for every finite input: every iteration of its
\* scanning loop makes progress, whatever the character (a tab, or a space
\* followed by a tab, included), and the call returns.
C22_TokenizeTerminates == [](LoopAdvances) /\ <>(pc = "tokenized")

\* C23: in every execute_imp call, the first on a freshly constructed
\* parser included, last_cmd() is evaluated only while history_ is
\* non-empty: on entry, where prev_cmd is copied from it (line 173), and
\* at the test of the blank-input branch (line 179); the evaluation never
\* faults.
C23_LastCmdOnNonEmpty ==
    /\ pc = "imp" => history_ # <<>>
    /\ (pc = "tokenized" /\ token_size(tok) = 0) => history_ # <<>>
    /\ pc # "crashed"

\* C24: the blank-input branch of execute_imp recurses at most once per
\* submitted statement: the statement it re-executes is never itself a
\* non-empty statement without positional tokens (whitespace only or flags
\* only), so the recursion is never more than one call deep, also when
\* several blank statements are submitted in a row.
C24_RepeatsAtMostOnce ==
    /\ depth <= 1
    /\ (pc = "imp" /\ depth > 0) =>
          (stmt = EmptyStr \/ ~NoPositional(stmt))
====
